---- MODULE Spec2Model ----
(***************************************************************************)
(* Model of sync_profile_ioc.py: the per-PV sample windows kept in `data`, *)
(* the handler process_update, the recomputation pass update_calculations  *)
(* and the output records freq_pvs / timestamp_pvs / diff_pvs.             *)
(*                                                                         *)
(* Timestamps are integers drawn from a small set.  Frequencies and the    *)
(* statistics are exact rationals <<n, d>> in lowest terms with d > 0      *)
(* (the program uses IEEE doubles; rounding is not modelled).  A standard  *)
(* deviation is kept as the rational variance under a symbolic root.       *)
(***************************************************************************)
EXTENDS Integers, Sequences, FiniteSets, TLC

(* ---------------- bounds of the model ---------------- *)
MaxTime == 4
MaxEvents == 5
MaxRereads == 1
MaxCycles == 2
MaxLifeEvents == 3

(* ---------------- configuration (main, lines 28-49) ---------------- *)
\* two configured devices with distinct names and PVs; the program's window_size
\* is 100, the model keeps the same code with a window of 2
num_pvs == 2
window_size == 2

Devices == 1 .. num_pvs
names == [i \in Devices |-> <<"name", i>>]
pvs == [i \in Devices |-> <<"pv", i>>]
Names == {names[i] : i \in Devices}
Pvs == {pvs[i] : i \in Devices}
name_to_pv == [n \in Names |-> pvs[CHOOSE i \in Devices : names[i] = n]]
pv_to_name == [p \in Pvs |-> names[CHOOSE i \in Devices : pvs[i] = p]]
Pairs == {<<i, j>> : i \in Devices, j \in Devices} \cap {p \in Devices \X Devices : p[1] < p[2]}

UnknownPv == <<"pv", 0>>
Times == 1 .. MaxTime

(* ---------------- sequences ---------------- *)
Last(s) == s[Len(s)]

\* Python s[-n:] for n >= 1: the last n elements, or all of s when it is shorter
LastN(s, n) == IF Len(s) <= n THEN s ELSE SubSeq(s, Len(s) - n + 1, Len(s))

IsSuffix(s, t) == /\ Len(s) <= Len(t)
                  /\ s = SubSeq(t, Len(t) - Len(s) + 1, Len(t))

Minimum(a, b) == IF a <= b THEN a ELSE b

(* ---------------- exact rationals ---------------- *)
Abs(n) == IF n < 0 THEN -n ELSE n

RECURSIVE GCD(_, _)
GCD(a, b) == IF b = 0 THEN a ELSE GCD(b, a % b)

RNorm(n, d) == LET g == GCD(Abs(n), d) IN <<n \div g, d \div g>>
RInt(n) == <<n, 1>>
RZero == <<0, 1>>
RAdd(x, y) == RNorm(x[1] * y[2] + y[1] * x[2], x[2] * y[2])
RSub(x, y) == RNorm(x[1] * y[2] - y[1] * x[2], x[2] * y[2])
RMul(x, y) == RNorm(x[1] * y[1], x[2] * y[2])
RDivInt(x, k) == RNorm(x[1], x[2] * k)
RLeq(x, y) == x[1] * y[2] <= y[1] * x[2]

RECURSIVE RSum(_)
RSum(xs) == IF xs = <<>> THEN RZero ELSE RAdd(xs[1], RSum(Tail(xs)))

RECURSIVE RMinSeq(_)
RMinSeq(xs) == IF Len(xs) = 1 THEN xs[1]
               ELSE LET m == RMinSeq(Tail(xs)) IN IF RLeq(xs[1], m) THEN xs[1] ELSE m

RECURSIVE RMaxSeq(_)
RMaxSeq(xs) == IF Len(xs) = 1 THEN xs[1]
               ELSE LET m == RMaxSeq(Tail(xs)) IN IF RLeq(m, xs[1]) THEN xs[1] ELSE m

\* np.mean, np.min, np.max, np.std (population: divisor = count)
Mean(xs) == RDivInt(RSum(xs), Len(xs))
Variance(xs) == LET m == Mean(xs)
                    sq == [k \in 1 .. Len(xs) |-> RMul(RSub(xs[k], m), RSub(xs[k], m))]
                IN  Mean(sq)
Sqrt(r) == [sqrt |-> r]
Std(xs) == Sqrt(Variance(xs))

(* ---------------- state ---------------- *)
VARIABLES
    data,           \* data[pv] = [times, freqs]: the sample window of each PV (line 48)
    timestamp_pvs,  \* value of the record <name>:Timestamp (line 65)
    freq_pvs,       \* values of <name>:InstantFreq/AvgFreq/MinFreq/MaxFreq/StdFreq (lines 58-64)
    diff_pvs,       \* values of <n1>_vs_<n2>:CurrentDiff/AvgDiff/MinDiff/MaxDiff/StdDiff (lines 74-80)
    recorded,       \* history: every timestamp appended to data[pv]['times'], in order
    derived,        \* history: every frequency appended to data[pv]['freqs'], in order
    passes,         \* history: number of completed calls of update_calculations
    last_pass,      \* history: the records <<name, stat>>, <<pair, stat>> the latest pass set
    pc,             \* monitoring mode: position of the callback running for each PV
    arg,            \* monitoring mode: pv_timestamp of the callback running for each PV
    dropped,        \* history: the pvnames of the events that failed the test of line 321
    dirty_freq_pvs, \* frequency records as a dirty-tracking aggregator would publish them
    dirty_diff_pvs, \* diff records as a dirty-tracking aggregator would publish them
    poll_pos,       \* polling mode: index in pv_objects of the next PV of the cycle (line 341)
    cycle,          \* polling mode: number of the current cycle of the while loop (line 340)
    polled,         \* history: <<cycle, index, outcome>> of every poll made, in order
    display_only,   \* args.create_display_only (lines 22, 313)
    phase,          \* position of main: the statement it executes next
    monitor_thread, \* the thread of lines 419-421: "unstarted", "alive" or "ended"
    trace           \* history: the statements main has completed, in order

dirty == <<dirty_freq_pvs, dirty_diff_pvs>>
poll == <<poll_pos, cycle, polled>>
life == <<display_only, phase, monitor_thread, trace>>
vars == <<data, timestamp_pvs, freq_pvs, diff_pvs, recorded, derived, passes, last_pass, pc, arg,
          dropped, dirty_freq_pvs, dirty_diff_pvs, poll_pos, cycle, polled,
          display_only, phase, monitor_thread, trace>>

InitialStats == [instant |-> RZero, avg |-> RZero, min |-> RZero, max |-> RZero, std |-> Sqrt(RZero)]
InitialDiffs == [current |-> RZero, avg |-> RZero, min |-> RZero, max |-> RZero, std |-> Sqrt(RZero)]

\* the statements of main after the configuration is read, in program order
MainSteps == <<"create_records", "write_display", "LoadDatabase", "iocInit", "start_thread",
               "interactive_ioc">>

\* lines 48-80: the windows are empty and every record holds its initial_value
Constructed ==
        /\ data = [p \in Pvs |-> [times |-> <<>>, freqs |-> <<>>]]
        /\ timestamp_pvs = [n \in Names |-> RZero]
        /\ freq_pvs = [n \in Names |-> InitialStats]
        /\ diff_pvs = [p \in Pairs |-> InitialDiffs]
        /\ recorded = [p \in Pvs |-> <<>>]
        /\ derived = [p \in Pvs |-> <<>>]
        /\ passes = 0
        /\ last_pass = [freq |-> {}, diff |-> {}]
        /\ pc = [p \in Pvs |-> "idle"]
        /\ arg = [p \in Pvs |-> 0]
        /\ dropped = {}
        /\ dirty_freq_pvs = [n \in Names |-> InitialStats]
        /\ dirty_diff_pvs = [p \in Pairs |-> InitialDiffs]
        /\ poll_pos = 1
        /\ cycle = 1
        /\ polled = <<>>

\* lines 419-424: main has started the monitor thread and serves the shell
Serving == /\ display_only = FALSE
           /\ phase = "interactive_ioc"
           /\ monitor_thread = "alive"
           /\ trace = SubSeq(MainSteps, 1, Len(MainSteps) - 1)

Init == Constructed /\ Serving

RECURSIVE SumLen(_, _)
SumLen(f, S) == IF S = {} THEN 0
                ELSE LET x == CHOOSE y \in S : TRUE IN Len(f[x]) + SumLen(f, S \ {x})

\* number of events accepted so far (appended to some window)
Accepted == SumLen(recorded, Pvs)

(* ---------------- process_update: the window (lines 322-333) ---------------- *)
\* variant: the sign of dt is ignored
FreqAbs(dt) == IF dt = 0 THEN RZero ELSE RNorm(1, Abs(dt))

\* line 327
Freq(dt) == IF dt > 0 THEN RNorm(1, dt) ELSE RZero

\* line 331
NeedsTrim(w) == Len(w.freqs) > window_size

\* variant: the slices keep the oldest elements ([:window_size])
TrimKeepOldest(w) == [times |-> SubSeq(w.times, 1, Minimum(Len(w.times), window_size)),
                      freqs |-> SubSeq(w.freqs, 1, Minimum(Len(w.freqs), window_size))]

\* lines 332-333
Trim(w) == [times |-> LastN(w.times, window_size), freqs |-> LastN(w.freqs, window_size)]

\* line 322
AppendTime(w, pv_timestamp) == [w EXCEPT !.times = Append(w.times, pv_timestamp)]

\* variant: dt is taken from the first element of the window
AppendFreqFromFirst(w, pv_timestamp) ==
    IF Len(w.times) > 1
    THEN [w EXCEPT !.freqs = Append(w.freqs, Freq(pv_timestamp - w.times[1]))]
    ELSE w

\* variant: the echo is made in the branch of line 325 only
TimestampSetAfterFirst(tp, name, w, pv_timestamp) ==
    IF Len(w.times) > 1 THEN [tp EXCEPT ![name] = RInt(pv_timestamp)] ELSE tp

\* line 324, on the window w after line 322: timestamp_pvs[name].set(pv_timestamp)
TimestampSet(tp, name, w, pv_timestamp) == [tp EXCEPT ![name] = RInt(pv_timestamp)]

\* lines 325-329, on the window after line 322
AppendFreq(w, pv_timestamp) ==
    IF Len(w.times) > 1
    THEN [w EXCEPT !.freqs = Append(w.freqs, Freq(pv_timestamp - w.times[Len(w.times) - 1]))]
    ELSE w

\* lines 330-333; the trim is nested in the branch of line 325
TrimIfNeeded(w) == IF Len(w.times) > 1 /\ NeedsTrim(w) THEN Trim(w) ELSE w

\* variant: every key of data holds the same window object
StoreWindowShared(d, pvname, w) == [p \in DOMAIN d |-> w]

\* lines 48 and 322-333: each PV has its own lists; only data[pvname] is written
StoreWindow(d, pvname, w) == [d EXCEPT ![pvname] = w]

\* lines 322-329: the window before the trim
Appended(w, pv_timestamp) == AppendFreq(AppendTime(w, pv_timestamp), pv_timestamp)

RecordArrival(w, pv_timestamp) == TrimIfNeeded(Appended(w, pv_timestamp))

(* ---------------- update_calculations (lines 368-412) ---------------- *)
\* variant: a single frequency is not published
HasTwoFreqs(w) == Len(w.freqs) > 1

\* line 374
HasFreqs(w) == w.freqs # <<>>

\* variant: np.min and np.max exchanged
FreqStatsSwapped(freqs) == [instant |-> Last(freqs), avg |-> Mean(freqs), min |-> RMaxSeq(freqs),
                            max |-> RMinSeq(freqs), std |-> Std(freqs)]

\* lines 375-379
FreqStats(freqs) == [instant |-> Last(freqs), avg |-> Mean(freqs), min |-> RMinSeq(freqs),
                     max |-> RMaxSeq(freqs), std |-> Std(freqs)]

\* variant: a pair is published only when both windows hold two timestamps
HasTwoTimes(times1, times2) == Len(times1) > 1 /\ Len(times2) > 1

\* line 397
HasTimes(times1, times2) == times1 # <<>> /\ times2 # <<>>

\* variant: the current diff is the last positionally paired diff
CurrentDiffPaired(times1, times2) ==
    LET m == Minimum(Len(times1), Len(times2)) IN RInt(times1[m] - times2[m])

\* line 399
CurrentDiff(times1, times2) == RInt(Last(times1) - Last(times2))

\* variant: the two windows are paired from their newest elements
DiffsFromTail(times1, times2) ==
    LET m == Minimum(Len(times1), Len(times2))
    IN  [k \in 1 .. m |-> RInt(LastN(times1, m)[k] - LastN(times2, m)[k])]

\* line 401: zip stops at the shorter list
Diffs(times1, times2) ==
    [k \in 1 .. Minimum(Len(times1), Len(times2)) |-> RInt(times1[k] - times2[k])]

\* lines 399-406
DiffStats(times1, times2) ==
    LET diffs == Diffs(times1, times2)
    IN  [current |-> CurrentDiff(times1, times2), avg |-> Mean(diffs), min |-> RMinSeq(diffs),
         max |-> RMaxSeq(diffs), std |-> Std(diffs)]

Times1(d, p) == d[name_to_pv[names[p[1]]]].times
Times2(d, p) == d[name_to_pv[names[p[2]]]].times

\* variant: the average is smoothed with the value published before
FreqPassSmoothed(d, old) ==
    [n \in Names |-> IF HasFreqs(d[name_to_pv[n]])
                     THEN [FreqStats(d[name_to_pv[n]].freqs) EXCEPT
                              !.avg = RDivInt(RAdd(old[n].avg, Mean(d[name_to_pv[n]].freqs)), 2)]
                     ELSE old[n]]

\* lines 370-386: the records set by the first loop, given the windows d
FreqPass(d, old) ==
    [n \in Names |-> IF HasFreqs(d[name_to_pv[n]]) THEN FreqStats(d[name_to_pv[n]].freqs) ELSE old[n]]

\* variant: the inner loop starts at i (range(i, num_pvs))
PassPairsFromI == {p \in Devices \X Devices : p[1] <= p[2]}

\* lines 389-390: the index pairs the second loop visits
PassPairs == {p \in Devices \X Devices : p[1] < p[2]}

\* lines 397 and 402: the pairs for which the second loop reaches the set() calls
PublishedPairs(d) ==
    {p \in PassPairs : HasTimes(Times1(d, p), Times2(d, p)) /\ Diffs(Times1(d, p), Times2(d, p)) # <<>>}

\* variant: the average diff is smoothed with the value published before
DiffPassSmoothed(d, old) ==
    [p \in DOMAIN old |-> IF p \in PublishedPairs(d)
                          THEN [DiffStats(Times1(d, p), Times2(d, p)) EXCEPT
                                   !.avg = RDivInt(RAdd(old[p].avg, Mean(Diffs(Times1(d, p), Times2(d, p)))), 2)]
                          ELSE old[p]]

\* lines 389-412: the records set by the second loop, given the windows d
DiffPass(d, old) ==
    [p \in DOMAIN old |-> IF p \in PublishedPairs(d)
                          THEN DiffStats(Times1(d, p), Times2(d, p)) ELSE old[p]]

StatFields == {"instant", "avg", "min", "max", "std"}
DiffFields == {"current", "avg", "min", "max", "std"}

\* lines 382-386 and 408-412: the records on which the pass calls set()
PassSets(d) ==
    [freq |-> {n \in Names : HasFreqs(d[name_to_pv[n]])} \X StatFields,
     diff |-> PublishedPairs(d) \X DiffFields]

(* A dirty-tracking aggregator (design notes of the specification): on an   *)
(* event of `name` it recomputes the statistics of that source and of the   *)
(* pairs that source belongs to, with the calculators of the program.       *)
DirtyFreqPass(d, old, name) ==
    [old EXCEPT ![name] = IF HasFreqs(d[name_to_pv[name]])
                          THEN FreqStats(d[name_to_pv[name]].freqs) ELSE @]

DirtyDiffPass(d, old, name) ==
    [p \in DOMAIN old |-> IF (names[p[1]] = name \/ names[p[2]] = name) /\ p \in PublishedPairs(d)
                          THEN DiffStats(Times1(d, p), Times2(d, p)) ELSE old[p]]

dirty_calculations(d, name) ==
    /\ dirty_freq_pvs' = DirtyFreqPass(d, dirty_freq_pvs, name)
    /\ dirty_diff_pvs' = DirtyDiffPass(d, dirty_diff_pvs, name)

\* one call of update_calculations over the windows d
update_calculations(d) ==
    /\ freq_pvs' = FreqPass(d, freq_pvs)
    /\ diff_pvs' = DiffPass(d, diff_pvs)
    /\ passes' = passes + 1
    /\ last_pass' = PassSets(d)

(* ---------------- process_update, run to completion (lines 318-334) ---------------- *)
\* variant: the name, not the pvname, is looked up in data
RegisteredByName(pvname) == pvname \in DOMAIN pv_to_name /\ pv_to_name[pvname] \in DOMAIN data

\* line 321: pv_to_name.get(pvname) is a name and pvname is a key of data
Registered(pvname) == pvname \in DOMAIN pv_to_name /\ pvname \in DOMAIN data

\* variant: the pass is called only in the branch of line 325
RunsPassWithFreq(w) == Len(w.times) > 1

\* line 334: the pass is called for every registered event
RunsPass(w) == TRUE

process_update(pvname, pv_timestamp) ==
    /\ Accepted < MaxEvents
    /\ \A p \in Pvs : pc[p] = "idle"
    /\ IF Registered(pvname)
       THEN LET name == pv_to_name[pvname]
                a == Appended(data[pvname], pv_timestamp)
                w == RecordArrival(data[pvname], pv_timestamp)
                d == StoreWindow(data, pvname, w)
            IN  /\ data' = d
                /\ timestamp_pvs' = TimestampSet(timestamp_pvs, name,
                                                 AppendTime(data[pvname], pv_timestamp), pv_timestamp)
                /\ recorded' = [recorded EXCEPT ![pvname] = Append(@, pv_timestamp)]
                /\ derived' = [derived EXCEPT ![pvname] =
                                 IF Len(a.freqs) > Len(data[pvname].freqs)
                                 THEN Append(@, Last(a.freqs)) ELSE @]
                /\ IF RunsPass(w)
                   THEN update_calculations(d) /\ dirty_calculations(d, name)
                   ELSE UNCHANGED <<freq_pvs, diff_pvs, passes, last_pass, dirty>>
                /\ UNCHANGED <<pc, arg, dropped, life>>
       ELSE /\ dropped' = dropped \cup {pvname}
            /\ UNCHANGED <<data, timestamp_pvs, freq_pvs, diff_pvs, recorded, derived, passes,
                           last_pass, pc, arg, dirty, life>>

\* events reach process_update one at a time, from any PV name
Deliver(pvname, pv_timestamp) == process_update(pvname, pv_timestamp) /\ UNCHANGED poll

Next == \E pvname \in Pvs \cup {UnknownPv}, pv_timestamp \in Times : Deliver(pvname, pv_timestamp)

Spec == Init /\ [][Next]_vars

(* ---------------- polling mode (lines 336-348) ---------------- *)
\* variant: the try statement encloses the for loop, a failure ends the cycle
AfterFailureEndsCycle(pos) == num_pvs + 1

\* lines 346-347: the exception is logged inside the for loop, which goes on
AfterFailure(pos) == pos + 1

\* lines 343-345: get() and timestamp succeed and process_update returns
PollOk(pv_timestamp) ==
    /\ poll_pos \in Devices
    /\ process_update(pvs[poll_pos], pv_timestamp)
    /\ polled' = Append(polled, <<cycle, poll_pos, "ok">>)
    /\ poll_pos' = poll_pos + 1
    /\ UNCHANGED cycle

\* lines 343-347: a statement of the try block raises before any window is
\* written; the handler of line 346 logs the error
PollFail ==
    /\ poll_pos \in Devices
    /\ polled' = Append(polled, <<cycle, poll_pos, "failed">>)
    /\ poll_pos' = AfterFailure(poll_pos)
    /\ UNCHANGED <<data, timestamp_pvs, freq_pvs, diff_pvs, recorded, derived, passes, last_pass,
                   pc, arg, dropped, dirty, cycle, life>>

\* line 348 and the next turn of the while loop of line 340
Sleep ==
    /\ poll_pos = num_pvs + 1
    /\ cycle < MaxCycles
    /\ poll_pos' = 1
    /\ cycle' = cycle + 1
    /\ UNCHANGED <<data, timestamp_pvs, freq_pvs, diff_pvs, recorded, derived, passes, last_pass,
                   pc, arg, dropped, dirty, polled, life>>

NextPoll ==
    \/ \E pv_timestamp \in Times : PollOk(pv_timestamp)
    \/ PollFail
    \/ Sleep

SpecPoll == Init /\ [][NextPoll]_vars

(* ---------------- the pass read again (lines 368-412) ---------------- *)
\* update_calculations called once more on the windows as they are
Recompute ==
    /\ passes < Accepted + MaxRereads
    /\ \A p \in Pvs : pc[p] = "idle"
    /\ update_calculations(data)
    /\ UNCHANGED <<data, timestamp_pvs, recorded, derived, pc, arg, dropped, dirty, poll, life>>

NextReread ==
    \/ \E pvname \in Pvs, pv_timestamp \in Times : Deliver(pvname, pv_timestamp)
    \/ Recompute

SpecReread == Init /\ [][NextReread]_vars

(* ---------------- monitoring mode (lines 349-366) ---------------- *)
(* epics.camonitor registers callback_monitor for every PV; the callbacks  *)
(* are run by the channel-access client, one PV's callbacks in order, and  *)
(* process_update takes no lock.  Each statement of process_update is one  *)
(* step; the pass is taken as one step.                                    *)
InFlight == Cardinality({p \in Pvs : pc[p] = "append_time"})

\* lines 351-353: the callback is entered with the event's timestamp
callback_monitor(pvname, pv_timestamp) ==
    /\ pc[pvname] = "idle"
    /\ Accepted + InFlight < MaxEvents
    /\ Registered(pvname)
    /\ pc' = [pc EXCEPT ![pvname] = "append_time"]
    /\ arg' = [arg EXCEPT ![pvname] = pv_timestamp]
    /\ UNCHANGED <<data, timestamp_pvs, freq_pvs, diff_pvs, recorded, derived, passes, last_pass,
                   dropped, dirty, poll, life>>

\* line 322
StepAppendTime(pvname) ==
    /\ pc[pvname] = "append_time"
    /\ data' = [data EXCEPT ![pvname] = AppendTime(@, arg[pvname])]
    /\ recorded' = [recorded EXCEPT ![pvname] = Append(@, arg[pvname])]
    /\ pc' = [pc EXCEPT ![pvname] = "set_timestamp"]
    /\ UNCHANGED <<timestamp_pvs, freq_pvs, diff_pvs, derived, passes, last_pass, arg,
                   dropped, dirty, poll, life>>

\* line 324
StepSetTimestamp(pvname) ==
    /\ pc[pvname] = "set_timestamp"
    /\ timestamp_pvs' = TimestampSet(timestamp_pvs, pv_to_name[pvname], data[pvname], arg[pvname])
    /\ pc' = [pc EXCEPT ![pvname] = "append_freq"]
    /\ UNCHANGED <<data, freq_pvs, diff_pvs, recorded, derived, passes, last_pass, arg,
                   dropped, dirty, poll, life>>

\* lines 325-329
StepAppendFreq(pvname) ==
    /\ pc[pvname] = "append_freq"
    /\ LET a == AppendFreq(data[pvname], arg[pvname])
       IN  /\ data' = [data EXCEPT ![pvname] = a]
           /\ derived' = [derived EXCEPT ![pvname] =
                            IF Len(a.freqs) > Len(data[pvname].freqs)
                            THEN Append(@, Last(a.freqs)) ELSE @]
    /\ pc' = [pc EXCEPT ![pvname] = IF Len(data[pvname].times) > 1 THEN "trim_freqs" ELSE "calc"]
    /\ UNCHANGED <<timestamp_pvs, freq_pvs, diff_pvs, recorded, passes, last_pass, arg,
                   dropped, dirty, poll, life>>

\* lines 331-332
StepTrimFreqs(pvname) ==
    /\ pc[pvname] = "trim_freqs"
    /\ IF NeedsTrim(data[pvname])
       THEN /\ data' = [data EXCEPT ![pvname].freqs = Trim(data[pvname]).freqs]
            /\ pc' = [pc EXCEPT ![pvname] = "trim_times"]
       ELSE /\ pc' = [pc EXCEPT ![pvname] = "calc"]
            /\ UNCHANGED data
    /\ UNCHANGED <<timestamp_pvs, freq_pvs, diff_pvs, recorded, derived, passes, last_pass, arg,
                   dropped, dirty, poll, life>>

\* line 333
StepTrimTimes(pvname) ==
    /\ pc[pvname] = "trim_times"
    /\ data' = [data EXCEPT ![pvname].times = Trim(data[pvname]).times]
    /\ pc' = [pc EXCEPT ![pvname] = "calc"]
    /\ UNCHANGED <<timestamp_pvs, freq_pvs, diff_pvs, recorded, derived, passes, last_pass, arg,
                   dropped, dirty, poll, life>>

\* line 334
StepCalc(pvname) ==
    /\ pc[pvname] = "calc"
    /\ update_calculations(data)
    /\ dirty_calculations(data, pv_to_name[pvname])
    /\ pc' = [pc EXCEPT ![pvname] = "idle"]
    /\ UNCHANGED <<data, timestamp_pvs, recorded, derived, arg,
                   dropped, poll, life>>

NextMonitor ==
    \/ \E pvname \in Pvs, pv_timestamp \in Times : callback_monitor(pvname, pv_timestamp)
    \/ \E pvname \in Pvs : StepAppendTime(pvname)
    \/ \E pvname \in Pvs : StepSetTimestamp(pvname)
    \/ \E pvname \in Pvs : StepAppendFreq(pvname)
    \/ \E pvname \in Pvs : StepTrimFreqs(pvname)
    \/ \E pvname \in Pvs : StepTrimTimes(pvname)
    \/ \E pvname \in Pvs : StepCalc(pvname)

SpecMonitor == Init /\ [][NextMonitor]_vars

(* ---------------- the life of the process (main, lines 14-433) ---------------- *)
(* main runs its statements in program order.  The records exist with their   *)
(* initial values from the start of the model; "create_records" marks the     *)
(* end of the builder calls of lines 52-80.                                   *)

\* variant: the test of line 313 is missing, main always goes on to the IOC
AfterDisplayAlways(only) == "LoadDatabase"

\* lines 313-315: in display-only mode main returns after the file is written
AfterDisplay(only) == IF only THEN "exited" ELSE "LoadDatabase"

\* one statement of main completes
MainStep(from, to) ==
    /\ phase = from
    /\ phase' = to
    /\ trace' = Append(trace, from)
    /\ UNCHANGED <<data, timestamp_pvs, freq_pvs, diff_pvs, recorded, derived, passes, last_pass,
                   pc, arg, dropped, dirty, poll, display_only>>

\* lines 52-80: builder.aIn for every record
CreateRecords == MainStep("create_records", "write_display") /\ UNCHANGED monitor_thread

\* lines 82-315: the display file is written, then the test of line 313
WriteDisplay == MainStep("write_display", AfterDisplay(display_only)) /\ UNCHANGED monitor_thread

\* line 415
LoadDatabase == MainStep("LoadDatabase", "iocInit") /\ UNCHANGED monitor_thread

\* line 416
iocInit == MainStep("iocInit", "start_thread") /\ UNCHANGED monitor_thread

\* lines 419-421: monitor_thread.start()
StartThread == MainStep("start_thread", "interactive_ioc") /\ monitor_thread' = "alive"

\* lines 424-433: the shell returns and the process exits; the daemon thread
\* ends with it
Shutdown == MainStep("interactive_ioc", "exited") /\ monitor_thread' = "ended"

\* lines 317-366: events are handled on the monitor thread and on the
\* callbacks it registers, so only while that thread is alive
Ingest(pvname, pv_timestamp) ==
    /\ monitor_thread = "alive"
    /\ Accepted < MaxLifeEvents
    /\ Deliver(pvname, pv_timestamp)

InitLife == /\ Constructed
            /\ display_only \in BOOLEAN
            /\ phase = MainSteps[1]
            /\ monitor_thread = "unstarted"
            /\ trace = <<>>

NextLife ==
    \/ CreateRecords
    \/ WriteDisplay
    \/ LoadDatabase
    \/ iocInit
    \/ StartThread
    \/ Shutdown
    \/ \E pvname \in Pvs \cup {UnknownPv}, pv_timestamp \in Times : Ingest(pvname, pv_timestamp)

SpecLife == InitLife /\ [][NextLife]_vars

(* ======================= properties ======================= *)
NameOf(pvname) == pv_to_name[pvname]

RECURSIVE StrictlyIncreasing(_)
StrictlyIncreasing(r) == \/ Len(r) <= 1
                         \/ /\ r[1] < r[2]
                            /\ StrictlyIncreasing(Tail(r))

\* an element of the window has been discarded
Evicted(pvname) == Len(data[pvname].times) < Len(recorded[pvname])

(* C1: in every reachable state, for every source, len(timestamps) <= capacity *)
(* and len(frequencies) <= capacity.                                           *)
WindowSizeInvariant ==
    \A p \in Pvs : /\ Len(data[p].times) <= window_size
                   /\ Len(data[p].freqs) <= window_size

(* C2: once more than capacity arrivals were recorded for a source, its window *)
(* holds exactly the last capacity recorded timestamps and at most capacity-1  *)
(* frequencies.                                                                *)
CapacityEviction ==
    \A p \in Pvs : Len(recorded[p]) > window_size =>
        /\ data[p].times = LastN(recorded[p], window_size)
        /\ Len(data[p].freqs) <= window_size - 1

(* C3: a source's timestamps window is a contiguous suffix, in arrival order,  *)
(* of all timestamps recorded for it, and its frequencies window a contiguous  *)
(* suffix of all frequencies derived for it: eviction removes only the oldest  *)
(* elements and neither reorders nor re-derives the retained ones.             *)
MostRecentEntriesOnly ==
    \A p \in Pvs : /\ IsSuffix(data[p].times, recorded[p])
                   /\ IsSuffix(data[p].freqs, derived[p])

\* some source has lost elements of both sequences and still holds several
MostRecentWitness ==
    \E p \in Pvs : /\ Len(data[p].times) < Len(recorded[p])
                   /\ Len(data[p].freqs) < Len(derived[p])
                   /\ Len(data[p].times) > 1
                   /\ Len(recorded[p]) > window_size + 2

(* C4: after k >= 2 arrivals of a source with strictly increasing timestamps   *)
(* t_1 < ... < t_k, processed one event at a time, the last element of its     *)
(* frequencies and its published InstantFreq are 1/(t_k - t_(k-1)), for every  *)
(* k, also after eviction.                                                     *)
InstantFrequency ==
    \A p \in Pvs :
        LET r == recorded[p]
            k == Len(r)
        IN  (k >= 2 /\ StrictlyIncreasing(r)) =>
                /\ Last(data[p].freqs) = RNorm(1, r[k] - r[k - 1])
                /\ freq_pvs[NameOf(p)].instant = RNorm(1, r[k] - r[k - 1])

\* a strictly increasing history longer than the window, after an eviction
InstantFrequencyWitness ==
    \E p \in Pvs : /\ Len(recorded[p]) > window_size + 1
                   /\ StrictlyIncreasing(recorded[p])
                   /\ Evicted(p)
                   /\ freq_pvs[NameOf(p)].instant = RNorm(1, Last(recorded[p]) - recorded[p][Len(recorded[p]) - 1])

(* C5: when an arrival's timestamp is equal to or smaller than the previously  *)
(* recorded timestamp of the same source, the timestamp is still appended, the *)
(* frequency appended is exactly 0, and the recomputation pass still runs and  *)
(* publishes it.                                                               *)
NonPositiveDelta ==
    \A p \in Pvs :
        LET r == recorded[p]
            k == Len(r)
        IN  (k >= 2 /\ r[k] <= r[k - 1]) =>
                /\ Last(data[p].times) = r[k]
                /\ Len(derived[p]) = k - 1
                /\ Last(derived[p]) = RZero
                /\ Last(data[p].freqs) = RZero
                /\ freq_pvs[NameOf(p)].instant = RZero
                /\ passes = Accepted

\* a repeated timestamp and an out-of-order one have both been recorded
NonPositiveDeltaWitness ==
    /\ \E p \in Pvs : Len(recorded[p]) = 2 /\ recorded[p][1] = recorded[p][2]
                      /\ data[p].freqs = <<RZero>>
    /\ \E p \in Pvs : Len(recorded[p]) >= 2
                      /\ Last(recorded[p]) < recorded[p][Len(recorded[p]) - 1]

(* C6: every accepted event triggers exactly one full recomputation pass that  *)
(* covers every registered source and every pair (i<j) and completes before    *)
(* the handler returns: the number of passes equals the number of accepted     *)
(* events, and the latest pass has set the records of every source that has a  *)
(* frequency and of every pair whose two windows are non-empty.                *)
OnePassPerEvent ==
    /\ passes = Accepted
    /\ passes > 0 =>
        /\ last_pass.freq = {n \in Names : data[name_to_pv[n]].freqs # <<>>} \X StatFields
        /\ last_pass.diff = {q \in Pairs : /\ data[pvs[q[1]]].times # <<>>
                                           /\ data[pvs[q[2]]].times # <<>>} \X DiffFields
        /\ \A n \in Names : data[name_to_pv[n]].freqs # <<>> =>
               freq_pvs[n] = FreqStats(data[name_to_pv[n]].freqs)

\* a first arrival (no frequency yet) and later arrivals have each run a pass
OnePassPerEventWitness ==
    /\ passes = MaxEvents
    /\ \E p \in Pvs : Len(recorded[p]) = 1
    /\ \E p \in Pvs : Len(recorded[p]) > 2
    /\ last_pass.diff # {}

(* C7: at most one event is being recorded at a time: no two executions of     *)
(* process_update overlap, in monitoring mode with several sources delivering  *)
(* events.                                                                     *)
MutualExclusion ==
    \A p \in Pvs, q \in Pvs : (p # q) => (pc[p] = "idle" \/ pc[q] = "idle")

(* C8: with events processed one at a time, after every accepted event and for *)
(* every pair (i<j) whose two sources each have a recorded timestamp, the      *)
(* published CurrentDiff is the most recent timestamp of source i minus the    *)
(* most recent timestamp of source j, whatever the number of arrivals and      *)
(* whether or not elements were evicted.                                       *)
CurrentDiffLatest ==
    \A q \in Pairs :
        LET r1 == recorded[pvs[q[1]]]
            r2 == recorded[pvs[q[2]]]
        IN  (r1 # <<>> /\ r2 # <<>>) =>
                diff_pvs[q].current = RInt(Last(r1) - Last(r2))

\* one source of the pair has evicted elements, the windows differ in length
\* and the latest difference is not the last positionally paired one
CurrentDiffWitness ==
    \E q \in Pairs :
        LET t1 == data[pvs[q[1]]].times
            t2 == data[pvs[q[2]]].times
        IN  /\ t1 # <<>> /\ t2 # <<>>
            /\ Evicted(pvs[q[1]]) \/ Evicted(pvs[q[2]])
            /\ Len(t1) # Len(t2)
            /\ diff_pvs[q].current # CurrentDiffPaired(t1, t2)

(* C9: for every pair (a, b) with non-empty windows, the published AvgDiff,    *)
(* MinDiff, MaxDiff and StdDiff are the statistics of the sequence             *)
(* diffs[k] = a.timestamps[k] - b.timestamps[k], k = 0 .. min(len) - 1, over   *)
(* the windows as they are (already trimmed); the surplus of the longer        *)
(* window is ignored.                                                          *)
PositionalDiffs(a, b) ==
    [k \in 1 .. (IF Len(a) <= Len(b) THEN Len(a) ELSE Len(b)) |-> <<a[k] - b[k], 1>>]

PositionalPairing ==
    \A q \in Pairs :
        LET a == data[pvs[q[1]]].times
            b == data[pvs[q[2]]].times
        IN  (a # <<>> /\ b # <<>>) =>
                /\ diff_pvs[q].avg = Mean(PositionalDiffs(a, b))
                /\ diff_pvs[q].min = RMinSeq(PositionalDiffs(a, b))
                /\ diff_pvs[q].max = RMaxSeq(PositionalDiffs(a, b))
                /\ diff_pvs[q].std = Std(PositionalDiffs(a, b))

\* the longer window holds three timestamps and the shorter two, and pairing
\* from the newest elements would give another average
PositionalPairingWitness ==
    \E q \in Pairs :
        LET a == data[pvs[q[1]]].times
            b == data[pvs[q[2]]].times
        IN  /\ Len(a) = 3 /\ Len(b) = 2
            /\ diff_pvs[q].avg # Mean(DiffsFromTail(a, b))
            /\ diff_pvs[q].avg = RDivInt(RInt((a[1] - b[1]) + (a[2] - b[2])), 2)

(* C10: for every source with fewer than 2 recorded arrivals no pass publishes *)
(* InstantFreq/AvgFreq/MinFreq/MaxFreq/StdFreq (they keep their initial        *)
(* value), and from the source's second arrival onward every pass publishes    *)
(* all five.                                                                   *)
EmptyFrequencyWindow ==
    \A n \in Names :
        LET r == recorded[name_to_pv[n]]
        IN  /\ Len(r) < 2 => /\ freq_pvs[n] = InitialStats
                             /\ \A f \in StatFields : <<n, f>> \notin last_pass.freq
            /\ Len(r) >= 2 => \A f \in StatFields : <<n, f>> \in last_pass.freq

\* passes have run while one source had a single arrival and another had two
EmptyFrequencyWitness ==
    /\ passes >= 3
    /\ \E n \in Names : Len(recorded[name_to_pv[n]]) = 1 /\ freq_pvs[n] = InitialStats
    /\ \E n \in Names : /\ Len(recorded[name_to_pv[n]]) = 2
                        /\ freq_pvs[n].instant # RZero
                        /\ <<n, "std">> \in last_pass.freq


(* C11: for every pair (i<j), while either source has no recorded timestamp no *)
(* pass publishes any of CurrentDiff/AvgDiff/MinDiff/MaxDiff/StdDiff for the   *)
(* pair (they keep their initial value); once both sources have at least one   *)
(* recorded timestamp every pass publishes all five together.                  *)
EmptyPairWindow ==
    \A q \in Pairs :
        LET r1 == recorded[pvs[q[1]]]
            r2 == recorded[pvs[q[2]]]
        IN  /\ (r1 = <<>> \/ r2 = <<>>) =>
                   /\ diff_pvs[q] = InitialDiffs
                   /\ \A f \in DiffFields : <<q, f>> \notin last_pass.diff
            /\ (r1 # <<>> /\ r2 # <<>>) =>
                   \A f \in DiffFields : <<q, f>> \in last_pass.diff

\* a pass has published a pair whose sources have one timestamp each
EmptyPairWitness ==
    \E q \in Pairs : /\ Len(recorded[pvs[q[1]]]) = 1
                     /\ Len(recorded[pvs[q[2]]]) = 1
                     /\ <<q, "std">> \in last_pass.diff
                     /\ diff_pvs[q].current # RZero


(* C15: in every reachable state in which a source has at least two timestamps *)
(* in its window, len(frequencies) = len(timestamps) - 1; trimming preserves   *)
(* the relation.                                                               *)
LengthRelation ==
    \A p \in Pvs : Len(data[p].times) >= 2 => Len(data[p].freqs) = Len(data[p].times) - 1


(* C17: after every pass a source's published MinFreq, MaxFreq and AvgFreq are *)
(* the minimum, maximum and arithmetic mean of exactly the elements currently  *)
(* in its frequencies window (an evicted value no longer counts), hence        *)
(* MinFreq <= InstantFreq <= MaxFreq and MinFreq <= AvgFreq <= MaxFreq; and    *)
(* MinDiff <= AvgDiff <= MaxDiff for every published pair.                     *)
IsMinOf(x, xs) == /\ \E k \in 1 .. Len(xs) : xs[k] = x
                  /\ \A k \in 1 .. Len(xs) : RLeq(x, xs[k])

IsMaxOf(x, xs) == /\ \E k \in 1 .. Len(xs) : xs[k] = x
                  /\ \A k \in 1 .. Len(xs) : RLeq(xs[k], x)

IsMeanOf(x, xs) == RMul(x, <<Len(xs), 1>>) = RSum(xs)

OrderedPairs == {<<i, j>> : i \in 1 .. num_pvs, j \in 1 .. num_pvs} \ {<<i, j>> \in (1 .. num_pvs) \X (1 .. num_pvs) : i >= j}

PairsOfPass == {x[1] : x \in last_pass.diff}

PairEnumeration ==
    /\ DOMAIN diff_pvs = OrderedPairs
    /\ 2 * Cardinality(DOMAIN diff_pvs) = num_pvs * (num_pvs - 1)
    /\ PairsOfPass \subseteq DOMAIN diff_pvs
    /\ \A q \in PairsOfPass : q[1] < q[2]
    /\ (passes > 0 /\ \A p \in Pvs : data[p].times # <<>>) => PairsOfPass = OrderedPairs
    /\ \A q \in PairsOfPass :
           diff_pvs[q].current = <<Last(data[pvs[q[1]]].times) - Last(data[pvs[q[2]]].times), 1>>

\* every source has a timestamp, the pass has set every pair, and the sign of
\* a published difference tells source i from source j
PairEnumerationWitness ==
    /\ \A p \in Pvs : data[p].times # <<>>
    /\ PairsOfPass = OrderedPairs
    /\ \E q \in PairsOfPass : diff_pvs[q].current[1] < 0


(* C13: after any accepted event for source s, its very first event and events *)
(* with a non-positive delta included, the published s:Timestamp is the        *)
(* timestamp just recorded, the last element of s's timestamps window; the     *)
(* Timestamp records of the other sources are unchanged by the event (a source *)
(* without events keeps the initial value).                                    *)
TimestampEcho ==
    \A p \in Pvs :
        /\ recorded[p] = <<>> => timestamp_pvs[NameOf(p)] = RZero
        /\ recorded[p] # <<>> =>
               /\ timestamp_pvs[NameOf(p)] = <<Last(recorded[p]), 1>>
               /\ timestamp_pvs[NameOf(p)] = <<Last(data[p].times), 1>>

\* one source has a single event; another, after an eviction, has received an
\* out-of-order event
TimestampEchoWitness ==
    /\ \E p \in Pvs : Len(recorded[p]) = 1 /\ timestamp_pvs[NameOf(p)] = <<recorded[p][1], 1>>
    /\ \E p \in Pvs : /\ Len(recorded[p]) > window_size + 1
                      /\ Last(recorded[p]) < recorded[p][Len(recorded[p]) - 1]
                      /\ timestamp_pvs[NameOf(p)] = <<Last(recorded[p]), 1>>


(* C12: an event whose source identifier is not in the registry changes no     *)
(* window, publishes no metric and triggers no pass, and events can be         *)
(* processed afterwards; every event for a registered source is applied to     *)
(* that source's window (none is dropped).                                     *)
UnregisteredDropped ==
    [][/\ dropped' \cap Pvs = {}
       /\ dropped' # dropped =>
              UNCHANGED <<data, timestamp_pvs, freq_pvs, diff_pvs, recorded, derived, passes, last_pass>>
       /\ dropped' = dropped => Accepted' = Accepted + 1]_vars

\* an event of an unknown PV was dropped and events were recorded
UnregisteredDroppedWitness ==
    /\ dropped = {UnknownPv}
    /\ Accepted = MaxEvents
    /\ passes = MaxEvents


IdempotentRead ==
    [][(passes' = passes + 1 /\ recorded' = recorded) =>
           /\ freq_pvs' = freq_pvs
           /\ diff_pvs' = diff_pvs
           /\ last_pass' = last_pass
           /\ data' = data]_vars

\* the pass was read again after events that published frequencies and a pair
IdempotentReadWitness ==
    /\ passes = Accepted + MaxRereads
    /\ \E n \in Names : freq_pvs[n].avg # RZero
    /\ \E q \in Pairs : diff_pvs[q].avg # RZero
    /\ \E p \in Pvs : Evicted(p)

(* C16: recording an event for source s mutates only s's window: the           *)
(* timestamps and frequencies of every other source are unchanged; and the     *)
(* recomputation pass itself mutates no window.                                *)
FrameOfRecordEvent ==
    [][/\ \A p \in Pvs : recorded'[p] = recorded[p] => data'[p] = data[p]
       /\ \A p \in Pvs, q \in Pvs : (recorded'[p] # recorded[p] /\ recorded'[q] # recorded[q]) => p = q
       /\ passes' = passes + 1 /\ recorded' = recorded => data' = data]_vars

\* events of both sources were recorded, one window was trimmed, and the pass
\* was run on its own
FrameWitness ==
    /\ \A p \in Pvs : data[p].times # <<>>
    /\ \E p \in Pvs : Evicted(p)
    /\ passes > Accepted


(* C20: in polling mode the sources of a cycle are polled one after the other  *)
(* in configured order on one worker, one event is recorded per successful     *)
(* poll, and a failed poll does not stop the cycle: the remaining sources are  *)
(* polled in that cycle and every source is polled in the later cycles.        *)
PollsOfCycle(c) == SelectSeq(polled, LAMBDA x : x[1] = c)

OkPollsOf(i) == SelectSeq(polled, LAMBDA x : x[2] = i /\ x[3] = "ok")

LifeState ==
    IF phase = "exited" THEN "Stopped"
    ELSE IF monitor_thread = "alive" THEN "Running"
    ELSE "Uninitialized"

Completed == {trace[k] : k \in DOMAIN trace}

NothingIngested ==
    /\ Accepted = 0
    /\ dropped = {}
    /\ passes = 0
    /\ \A p \in Pvs : data[p].times = <<>> /\ data[p].freqs = <<>>
    /\ timestamp_pvs = [n \in Names |-> RZero]
    /\ freq_pvs = [n \in Names |-> InitialStats]
    /\ diff_pvs = [p \in Pairs |-> InitialDiffs]

LifeMoves ==
    {<<"Uninitialized", "Running">>, <<"Running", "Stopped">>}
        \cup (IF display_only THEN {<<"Uninitialized", "Stopped">>} ELSE {})

LifecycleOrdering ==
    /\ LifeState = "Uninitialized"
    /\ NothingIngested
    /\ [][/\ LifeState' # LifeState => <<LifeState, LifeState'>> \in LifeMoves
          /\ LifeState' = "Uninitialized" => NothingIngested'
          /\ LifeState' = "Running" => {"create_records", "iocInit"} \subseteq Completed'
          /\ display_only => LifeState' # "Running" /\ NothingIngested']_vars

LifecycleWitness ==
    /\ LifeState = "Stopped"
    /\ ~display_only
    /\ \E p \in Pvs : Len(recorded[p]) >= 2
    /\ passes >= 2

====
